---------------------------- MODULE Spec2Model ----------------------------
(***************************************************************************)
(* Model of rl_network/actorcritic.py: the actor-critic network AC_Net     *)
(* (construction, forward, reinit_hid), the action selectors, finish_trial *)
(* with discount_rwds, and the snapshot utilities.                         *)
(*                                                                         *)
(* Numbers.  Rewards, values, returns and deltas are rationals; they are   *)
(* held as integers in units of 1/Scale.  A discount factor is GNum/GDen.  *)
(* Tensors of hidden state are abstracted to [w |-> width, v |-> 0 or 1],  *)
(* v = 0 meaning the all-zero tensor.  The batch dimension is left out:    *)
(* inputs are taken to have the batch_size rows the hidden state has.      *)
(***************************************************************************)
EXTENDS Integers, Sequences, FiniteSets, TLC

\* ------------------------------------------------------------------ bounds
MaxLen == 3
MaxSteps == 2
MaxTrials == 1
MaxLayers == 2
MaxUseable == 1

\* ----------------------------------------------------------------- numbers
GDen == 2

RECURSIVE Pow(_, _)
Pow(b, e) == IF e = 0 THEN 1 ELSE b * Pow(b, e - 1)

Scale == Pow(GDen, MaxLen + MaxSteps)

Abs(x) == IF x < 0 THEN -x ELSE x

Min2(a, b) == IF a < b THEN a ELSE b

\* discount factors gamma = g / GDen
Gammas == {1, 2}
\* the discount factor of the trial loop: 1/2
TrialGammas == {1}

\* a Python reward: an int (k = "int") or a float (k = "float") of value v
IntR(n) == [k |-> "int", v |-> n]
FloatR(n) == [k |-> "float", v |-> n]
RewardVals == {IntR(0), IntR(1), FloatR(1)}
DiscRewardVals == {IntR(-1), IntR(0), IntR(1), FloatR(1)}

SeqsUpTo(S, lo, hi) == UNION {[1..n -> S] : n \in lo..hi}

\* ----------------------------------------------------------- discount_rwds
\* np.asarray(list): int64 when every element is a Python int, float64
\* otherwise (the empty list gives float64)
asarray(lst) ==
    [dtype |-> IF lst # <<>> /\ \A i \in 1..Len(lst) : lst[i].k = "int"
               THEN "int" ELSE "float",
     data  |-> [i \in 1..Len(lst) |-> lst[i].v * Scale]]

\* storing a float into an int64 array truncates toward zero
TruncInt(x) == IF x >= 0 THEN (x \div Scale) * Scale
               ELSE -(((-x) \div Scale) * Scale)

\* disc_rwds[t] = running_add : the array's dtype decides what is stored
StoreElem(dtype, x) == IF dtype = "int" THEN TruncInt(x) ELSE x

\* the reversed(range(0, r.size)) loop; t is the 1-based index still to do
RECURSIVE DiscLoop(_, _, _, _, _)
DiscLoop(r, g, t, running_add, disc_rwds) ==
    IF t = 0 THEN disc_rwds
    ELSE LET ra == (running_add * g) \div GDen + r.data[t]
         IN  DiscLoop(r, g, t - 1, ra,
                      [disc_rwds EXCEPT ![t] = StoreElem(r.dtype, ra)])

discount_rwds(r, g) ==
    DiscLoop(r, g, Len(r.data), 0, [i \in 1..Len(r.data) |-> 0])


\* ------------------------------------------------------- AC_Net.__init__
\* a dimension argument: a Python int or a (height, width, channels) tuple
IntD(n) == [kind |-> "int", n |-> n, h |-> 0, w |-> 0, c |-> 0]
TupD(h, w, c) == [kind |-> "tuple", n |-> 0, h |-> h, w |-> w, c |-> c]

\* hidden-state entries: None, or a tensor of width w (v = 0: all zero)
None == [w |-> -1, v |-> -1]
Zeros(width) == [w |-> width, v |-> 0]

IsSpatial(htype) == htype \in {"conv", "pool"}

\* line 124 and 125
ConvOut(in, rfsize, padding, stride) ==
    ((in + 2 * padding - rfsize) \div stride) + 1

\* line 130 and 131
PoolOut(in, rfsize, padding, stride) ==
    ((in + 2 * padding - (rfsize - 1) - 1) \div stride) + 1

\* lines 122-135: the (height, width) computed for a conv or pool layer
GeomOut(htype, input_d, rfsize, padding, stride) ==
    IF htype = "conv"
    THEN <<ConvOut(input_d.h, rfsize, padding, stride),
           ConvOut(input_d.w, rfsize, padding, stride)>>
    ELSE <<PoolOut(input_d.h, rfsize, padding, stride),
           PoolOut(input_d.h, rfsize, padding, stride)>>

\* lines 110-116
LayerInput(a, i) ==
    IF i = 1 THEN a.input_dimensions
    ELSE IF IsSpatial(a.hidden_types[i - 1]) /\ ~IsSpatial(a.hidden_types[i])
         THEN LET p == a.hidden_dimensions[i - 1]
              IN  IF p.kind = "tuple" THEN IntD(p.h * p.w * p.c) ELSE p
         ELSE a.hidden_dimensions[i - 1]

ConsFail(err, line, at) ==
    [err |-> err, line |-> line, fail_at |-> at,
     hidden |-> <<>>, hx |-> <<>>, cx |-> <<>>]

ConsOk(hidden, hx, cx) ==
    [err |-> "none", line |-> 0, fail_at |-> 0,
     hidden |-> hidden, hx |-> hx, cx |-> cx]

\* a constructed layer: nn.Linear / LSTMCell / GRUCell (in_features,
\* out_features or hidden_size), nn.Conv2d (in_channels, out_channels),
\* nn.MaxPool2d (no parameters; the channel counts are recorded all the same)
Layer(htype, in, out) == [type |-> htype, in |-> in, size |-> out]

\* lines 104-157, one iteration per layer, then lines 160-166
RECURSIVE ConsLoop(_, _, _, _, _)
ConsLoop(a, i, hidden, hx, cx) ==
    IF i > Len(a.hidden_types)
    THEN \* nn.Linear(output_d, action_dimensions) needs an int output_d
         IF a.hidden_dimensions[i - 1].kind = "tuple"
         THEN ConsFail("TypeError", 162, i)
         ELSE ConsOk(hidden, hx, cx)
    ELSE
    LET htype   == a.hidden_types[i]
        input_d == LayerInput(a, i)
        decl    == a.hidden_dimensions[i]
    IN
    IF htype \notin {"linear", "lstm", "gru", "conv", "pool"}
    THEN ConsFail("AssertionError", 107, i)
    ELSE IF IsSpatial(htype)
    THEN IF input_d.kind # "tuple" \/ decl.kind # "tuple"
         THEN ConsFail("TypeError", 124, i)
         ELSE LET out == GeomOut(htype, input_d, a.rfsize, a.padding, a.stride)
              IN  IF out[1] # decl.h \/ out[2] # decl.w
                  THEN ConsFail("AssertionError",
                                IF htype = "conv" THEN 126 ELSE 132, i)
                  ELSE ConsLoop(a, i + 1,
                                Append(hidden, Layer(htype, input_d.c, decl.c)),
                                Append(hx, None), Append(cx, None))
    ELSE IF input_d.kind # "int" \/ decl.kind # "int"
    THEN ConsFail("TypeError", 139, i)
    ELSE LET layer == Layer(htype, input_d.n, decl.n)
         IN  IF htype = "linear"
             THEN ConsLoop(a, i + 1, Append(hidden, layer),
                           Append(hx, None), Append(cx, None))
             ELSE IF htype = "lstm"
             THEN ConsLoop(a, i + 1, Append(hidden, layer),
                           Append(hx, Zeros(decl.n)), Append(cx, Zeros(decl.n)))
             ELSE ConsLoop(a, i + 1, Append(hidden, layer),
                           Append(hx, Zeros(decl.n)), Append(cx, None))

\* AC_Net.__init__ as a whole: the raised error, or the built network
AC_Net_init(a) ==
    IF a.hidden_types = <<>>
    THEN ConsFail("IndexError", 76, 0)          \* hidden_types[0]
    ELSE IF a.input_dimensions.kind = "int" /\ IsSpatial(a.hidden_types[1])
    THEN ConsFail("AssertionError", 76, 0)
    ELSE IF a.input_dimensions.kind = "tuple" /\ ~IsSpatial(a.hidden_types[1])
    THEN ConsFail("AssertionError", 79, 0)
    ELSE IF Len(a.hidden_types) # Len(a.hidden_dimensions)
    THEN ConsFail("AssertionError", 86, 0)
    ELSE ConsLoop(a, 1, <<>>, <<>>, <<>>)

\* arguments of the constructor
HTypes == {"linear", "lstm", "gru", "conv", "pool"}
FrameSizes == {5, 6}
DeclSizes == {4, 5, 6}
Widths == {2, 3}
InputDims == {IntD(4)} \cup {TupD(h, w, 1) : h \in FrameSizes, w \in FrameSizes}
DimVals == {IntD(n) : n \in Widths}
             \cup {TupD(h, w, 1) : h \in DeclSizes, w \in DeclSizes}
RfSizes == {3, 4}
Strides == {1, 2}

KindMatches(types, dims) ==
    \A i \in 1..Min2(Len(types), Len(dims)) :
        (dims[i].kind = "tuple") <=> IsSpatial(types[i])

ConsArgs ==
    {[input_dimensions |-> inp, action_dimensions |-> 4,
      hidden_types |-> ty, hidden_dimensions |-> dm,
      rfsize |-> rf, padding |-> 1, stride |-> st] :
        inp \in InputDims, rf \in RfSizes, st \in Strides,
        ty \in SeqsUpTo(HTypes, 0, MaxLayers),
        dm \in SeqsUpTo(DimVals, 0, MaxLayers)}

\* --------------------------------------------------------- AC_Net.forward
\* the networks __init__ builds without error
NetArgs == {a \in ConsArgs : /\ KindMatches(a.hidden_types, a.hidden_dimensions)
                             /\ AC_Net_init(a).err = "none"}

\* the network object: the fields __init__ sets (lines 73, 99-170)
NewNet(a) ==
    LET r == AC_Net_init(a)
    IN  [input_d |-> a.input_dimensions, hidden |-> r.hidden,
         hx |-> r.hx, cx |-> r.cx,
         rfsize |-> a.rfsize, padding |-> a.padding, stride |-> a.stride]

\* outcome of a forward pass: the error raised (or "none"), the hidden
\* state as the pass left it, and the length of the returned tuple
FwdResult(err, hx, cx, n_out) == [err |-> err, hx |-> hx, cx |-> cx, n_out |-> n_out]

\* lines 195-198: x.view(1, -1) between a spatial and a non-spatial layer
Flatten(net, i, x) ==
    IF i > 1 /\ IsSpatial(net.hidden[i - 1].type) /\ ~IsSpatial(net.hidden[i].type)
    THEN IntD(x.h * x.w * x.c)
    ELSE x

\* lines 203-209: the state a recurrent layer at position i is given.
\* Reading past the end of the list raises IndexError.
ReadState(lst, i) == IF i > Len(lst) THEN [ok |-> FALSE, val |-> None]
                     ELSE [ok |-> TRUE, val |-> lst[i]]

\* lines 193-221; outs[i] is what the cell at position i computes
\* (0: an all-zero tensor, 1: anything else)
RECURSIVE FwdLoop(_, _, _, _, _, _)
FwdLoop(net, i, x0, hx, cx, outs) ==
    IF i > Len(net.hidden)
    THEN FwdResult("none", hx, cx,
                   IF net.hidden[Len(net.hidden)].type = "linear" THEN 3 ELSE 2)
    ELSE
    LET layer == net.hidden[i]
        x     == Flatten(net, i, x0)
    IN
    IF layer.type = "linear"
    THEN IF x.kind # "int" \/ x.n # layer.in
         THEN FwdResult("RuntimeError", hx, cx, 0)
         ELSE FwdLoop(net, i + 1, IntD(layer.size), hx, cx, outs)
    ELSE IF layer.type = "lstm"
    THEN LET h == ReadState(hx, i)
             c == ReadState(cx, i)
         IN  IF ~h.ok \/ ~c.ok
             THEN FwdResult("IndexError", hx, cx, 0)
             ELSE IF h.val = None \/ c.val = None
             THEN FwdResult("TypeError", hx, cx, 0)
             ELSE IF x.kind # "int" \/ x.n # layer.in
                     \/ h.val.w # layer.size \/ c.val.w # layer.size
             THEN FwdResult("RuntimeError", hx, cx, 0)
             ELSE FwdLoop(net, i + 1, IntD(layer.size),
                          [hx EXCEPT ![i] = [w |-> layer.size, v |-> outs[i]]],
                          [cx EXCEPT ![i] = [w |-> layer.size, v |-> outs[i]]],
                          outs)
    ELSE IF layer.type = "gru"
    THEN LET h == ReadState(hx, i)
         IN  IF ~h.ok
             THEN FwdResult("IndexError", hx, cx, 0)
             ELSE IF x.kind # "int" \/ x.n # layer.in
                     \/ (h.val # None /\ h.val.w # layer.size)
             THEN FwdResult("RuntimeError", hx, cx, 0)
             ELSE FwdLoop(net, i + 1, IntD(layer.size),
                          [hx EXCEPT ![i] = [w |-> layer.size, v |-> outs[i]]],
                          cx, outs)
    ELSE IF layer.type = "conv"
    THEN IF x.kind # "tuple" \/ x.c # layer.in
         THEN FwdResult("RuntimeError", hx, cx, 0)
         ELSE FwdLoop(net, i + 1,
                      TupD(ConvOut(x.h, net.rfsize, net.padding, net.stride),
                           ConvOut(x.w, net.rfsize, net.padding, net.stride),
                           layer.size),
                      hx, cx, outs)
    ELSE \* pool
         IF x.kind # "tuple"
         THEN FwdResult("RuntimeError", hx, cx, 0)
         ELSE FwdLoop(net, i + 1,
                      TupD(PoolOut(x.h, net.rfsize, net.padding, net.stride),
                           PoolOut(x.w, net.rfsize, net.padding, net.stride),
                           x.c),
                      hx, cx, outs)

\* AC_Net.forward: lines 185-190 check the input, then the layers run
forward(net, x, outs) ==
    IF x # net.input_d
    THEN FwdResult("AssertionError", net.hx, net.cx, 0)
    ELSE FwdLoop(net, 1, x, net.hx, net.cx, outs)

\* ------------------------------------------------------ AC_Net.reinit_hid
\* lines 226-241: both lists start empty; only recurrent layers append
RECURSIVE ReinitLoop(_, _, _, _)
ReinitLoop(hidden, i, hx, cx) ==
    IF i > Len(hidden) THEN [hx |-> hx, cx |-> cx]
    ELSE IF hidden[i].type = "lstm"
    THEN ReinitLoop(hidden, i + 1, Append(hx, Zeros(hidden[i].size)),
                    Append(cx, Zeros(hidden[i].size)))
    ELSE IF hidden[i].type = "gru"
    THEN ReinitLoop(hidden, i + 1, Append(hx, Zeros(hidden[i].size)),
                    Append(cx, None))
    ELSE ReinitLoop(hidden, i + 1, hx, cx)

reinit_hid(net) == ReinitLoop(net.hidden, 1, <<>>, <<>>)

\* ------------------------------------------------------------- snapshot
\* lines 438-444: one forward pass per usable state, stopping at the first
\* error; outs_seq[k] are the cell outputs of the k-th pass
RECURSIVE SnapLoop(_, _, _, _, _)
SnapLoop(net, x, k, n, outs_seq) ==
    IF k > n THEN [err |-> "none", hx |-> net.hx, cx |-> net.cx, cur_state |-> n]
    ELSE LET f == forward(net, x, outs_seq[k])
         IN  IF f.err # "none"
             THEN [err |-> f.err, hx |-> f.hx, cx |-> f.cx, cur_state |-> k]
             ELSE SnapLoop([net EXCEPT !.hx = f.hx, !.cx = f.cx], x, k + 1, n, outs_seq)

snapshot(net, x, n, outs_seq) ==
    IF n = 0 THEN [err |-> "none", hx |-> net.hx, cx |-> net.cx, cur_state |-> 0]
    ELSE SnapLoop(net, x, 1, n, outs_seq)

\* ------------------------------------------------- select_action and kin
\* a policy is a tuple of non-negative weights; Categorical normalises it
MFPolicies == {<<1, 3>>}
ECPolicies == {<<1, 1>>, <<0, 1>>}
ValueVals == {0, 1}

RECURSIVE SumSeq(_)
SumSeq(q) == IF q = <<>> THEN 0 ELSE Head(q) + SumSeq(Tail(q))

\* Categorical(p).sample(): any action of positive probability
Sample(p) == {a \in 1..Len(p) : p[a] > 0}

\* Categorical(p).log_prob(a) = log(p[a] / sum(p)), kept as the fraction
\* under the logarithm (num = 0 stands for -inf)
log_prob(p, a) == [num |-> p[a], den |-> SumSeq(p)]

SavedAction(lp, value) == [log_prob |-> lp, value |-> value]

\* lines 272-277; action is the sample drawn from Categorical(policy_)
select_action(model_saved_actions, policy_, value_, action) ==
    [saved_actions |-> Append(model_saved_actions,
                              SavedAction(log_prob(policy_, action), value_)),
     ret |-> [action |-> action, policy |-> policy_, value |-> value_]]

\* a slip of line 284: a.log_prob(action), the memory policy's
ec_log_prob_of_memory(mf_policy_, ec_policy_, action) == log_prob(ec_policy_, action)

\* line 284: the log-probability is b.log_prob(action), b the network's
\* distribution
ec_log_prob(mf_policy_, ec_policy_, action) == log_prob(mf_policy_, action)

\* lines 280-286; action is the sample drawn from Categorical(ec_policy_)
select_ec_action(model_saved_actions, mf_policy_, mf_value_, ec_policy_, action) ==
    [saved_actions |-> Append(model_saved_actions,
                              SavedAction(ec_log_prob(mf_policy_, ec_policy_, action),
                                          mf_value_)),
     ret |-> [action |-> action, policy |-> mf_policy_, value |-> mf_value_]]

\* ------------------------------------------------------------ finish_trial
\* the buffer argument: None, or [timesteps, states, actions, readable, trial]
NoBuffer == [none |-> TRUE, timesteps |-> <<>>, states |-> <<>>,
             actions |-> <<>>, readable |-> <<>>, trial |-> 0]

\* a buffer whose timesteps and states lists hold l1 entries and whose
\* actions and readable lists hold l2; entry t of each list names its step
Buffer(l1, l2, trial) ==
    [none |-> FALSE,
     timesteps |-> [t \in 1..l1 |-> t - 1],
     states    |-> [t \in 1..l1 |-> 10 + t],
     actions   |-> [t \in 1..l2 |-> 1 + (t % 2)],
     readable  |-> [t \in 1..l2 |-> <<t, 0>>],
     trial     |-> trial]

\* the buffers handed to finish_trial
FullBuffer == Buffer(MaxSteps, MaxSteps, 7)
Buffers == {NoBuffer}
             \cup {Buffer(l1, MaxSteps, 7) : l1 \in 0..MaxSteps}
             \cup {Buffer(MaxSteps, l2, 7) : l2 \in 0..MaxSteps}

\* the (cache, buffer) keyword arguments; without a cache the buffer is
\* never read, so one buffer stands for all
FinishKwargs ==
    {<<FALSE, NoBuffer>>, <<FALSE, FullBuffer>>} \cup {<<TRUE, b>> : b \in Buffers}

\* F.smooth_l1_loss(value, r) in units of 1/(2*Scale*Scale); d = value - r
\* in units of 1/Scale
smooth_l1_loss(d) == IF Abs(d) < Scale THEN d * d
                     ELSE (2 * Abs(d) - Scale) * Scale

\* lines 320-322 and 335-337 for one step: rpe = r - value.item(), and the
\* two loss terms (the policy term -log_prob * rpe is kept as the pair)
StepTerms(sa, r) ==
    LET rpe == r - sa.value * Scale
    IN  [rpe |-> rpe,
         policy_loss |-> [log_prob |-> sa.log_prob, rpe |-> rpe],
         value_loss  |-> smooth_l1_loss(sa.value * Scale - r)]

\* lines 324-329: the dictionary handed to EC.add_mem for step t
MemDict(buf, t, rpe) ==
    [activity |-> buf.states[t], action |-> buf.actions[t], delta |-> rpe,
     timestamp |-> buf.timesteps[t], readable |-> buf.readable[t],
     trial |-> buf.trial]

RECURSIVE MinOf(_)
MinOf(q) == IF Len(q) = 1 THEN q[1] ELSE Min2(q[1], MinOf(Tail(q)))

\* zip(...) stops with its shortest argument: line 319 and line 334
ZipLen(saved_actions, returns_, cache, buf) ==
    IF cache
    THEN MinOf(<<Len(saved_actions), Len(returns_), Len(buf.timesteps),
                 Len(buf.states), Len(buf.actions), Len(buf.readable)>>)
    ELSE Min2(Len(saved_actions), Len(returns_))

\* lines 309-318 without the else branch: nothing is raised
MissingBufferUnchecked(cache, buf) == FALSE

\* lines 309-318: a memory store without a buffer raises
MissingBuffer(cache, buf) == cache /\ buf.none

\* a sum that accepts the empty list, as sum(policy_losses) would
TorchCatAcceptsEmpty(losses) == FALSE

\* lines 341-342: torch.cat of an empty list raises RuntimeError
TorchCatFails(losses) == losses = <<>>

\* lines 349-350 left out: the list keeps its entries
DelNothing(lst) == lst

\* lines 349-350: del lst[:]
DelAll(lst) == <<>>

FinishFail(err, model, zero_grad, calls, pl, vl, returns_) ==
    [err |-> err, saved_actions |-> model.saved_actions, rewards |-> model.rewards,
     zero_grad |-> zero_grad, step |-> FALSE, add_mem_calls |-> calls,
     policy_losses |-> pl, value_losses |-> vl, returns |-> returns_]

\* finish_trial(model, discount_factor, optimizer, cache=, buffer=):
\* lines 290-352.  model = [saved_actions, rewards]; cache tells whether a
\* memory store was passed.  The tensors are taken to carry a gradient
\* graph, so that backward() itself succeeds; torch.Tensor(returns_) keeps
\* the values of returns_ (they are small dyadic fractions).
finish_trial(model, discount_factor, cache, buf) ==
    LET returns_ == discount_rwds(asarray(model.rewards), discount_factor)
    IN
    IF MissingBuffer(cache, buf)
    THEN FinishFail("Exception", model, FALSE, <<>>, <<>>, <<>>, returns_)
    ELSE
    LET mem   == cache /\ ~buf.none
        n     == ZipLen(model.saved_actions, returns_, mem, buf)
        terms == [t \in 1..n |-> StepTerms(model.saved_actions[t], returns_[t])]
        pl    == [t \in 1..n |-> terms[t].policy_loss]
        vl    == [t \in 1..n |-> terms[t].value_loss]
        calls == IF mem THEN [t \in 1..n |-> MemDict(buf, t, terms[t].rpe)]
                 ELSE <<>>
    IN
    IF TorchCatFails(pl) \/ TorchCatFails(vl)
    THEN FinishFail("RuntimeError", model, TRUE, calls, pl, vl, returns_)
    ELSE [err |-> "none",
          saved_actions |-> DelAll(model.saved_actions),
          rewards |-> DelAll(model.rewards),
          zero_grad |-> TRUE, step |-> TRUE, add_mem_calls |-> calls,
          policy_losses |-> pl, value_losses |-> vl, returns |-> returns_]

\* ------------------------------------------------------------- variables
VARIABLES
    \* discount_rwds on its own
    d_r, d_gamma, d_out, d_pc,
    \* AC_Net construction: the arguments and the outcome of __init__
    c_args, c_net, c_pc,
    \* the agent: the AC_Net object (hidden layers, hx, cx), its trial lists,
    \* the number of optimizer steps taken on its parameters, the number of
    \* records the memory store EC has been given, and the maze's cur_state
    net, saved_actions, rewards, opt_steps, EC, maze_cur_state,
    \* selector calls since the last finish_trial that returned
    nsel,
    \* the last call made: its name, arguments and outcome
    last

disc_vars == <<d_r, d_gamma, d_out, d_pc>>
cons_vars == <<c_args, c_net, c_pc>>
trial_vars == <<saved_actions, rewards, opt_steps, EC, nsel>>
net_vars == <<net, maze_cur_state>>
agent_vars == <<net, saved_actions, rewards, opt_steps, EC, maze_cur_state, nsel, last>>
vars == <<d_r, d_gamma, d_out, d_pc, c_args, c_net, c_pc,
          net, saved_actions, rewards, opt_steps, EC, maze_cur_state, nsel, last>>

NoArgs == [input_dimensions |-> IntD(4), action_dimensions |-> 4,
           hidden_types |-> <<"linear">>, hidden_dimensions |-> <<IntD(2)>>,
           rfsize |-> 4, padding |-> 1, stride |-> 1]

DiscIdle == d_r = asarray(<<>>) /\ d_gamma = 2 /\ d_out = <<>> /\ d_pc = "idle"
ConsIdle == c_args = NoArgs /\ c_net = AC_Net_init(NoArgs) /\ c_pc = "idle"

\* the agent as make_agent leaves it: lines 169-170 and 405-431
NewAgent(a) ==
    /\ net = NewNet(a)
    /\ saved_actions = <<>>
    /\ rewards = <<>>
    /\ opt_steps = 0
    /\ maze_cur_state = 0
    /\ nsel = 0
    /\ last = [op |-> "init"]

AgentIdle == NewAgent(NoArgs) /\ EC = 0

\* ------------------------------------------------- SpecDisc: discount_rwds
DiscInit ==
    /\ \E lst \in SeqsUpTo(DiscRewardVals, 1, MaxLen) : d_r = asarray(lst)
    /\ d_gamma \in Gammas
    /\ d_out = <<>>
    /\ d_pc = "call"
    /\ ConsIdle
    /\ AgentIdle

DiscCall ==
    /\ d_pc = "call"
    /\ d_out' = discount_rwds(d_r, d_gamma)
    /\ d_pc' = "done"
    /\ UNCHANGED <<d_r, d_gamma>>
    /\ UNCHANGED <<cons_vars, agent_vars>>

DiscNext == DiscCall

SpecDisc == DiscInit /\ [][DiscNext]_vars

\* C2: for every reward sequence r of length n >= 1 (integer rewards
\* included) and every discount g, the result G of discount_rwds has length
\* n, G[n-1] = r[n-1] and G[t] = r[t] + g*G[t+1] for t < n-1.
C2_Recurrence ==
    d_pc = "done" =>
        LET n == Len(d_r.data) IN
        /\ Len(d_out) = n
        /\ d_out[n] = d_r.data[n]
        /\ \A t \in 1..(n - 1) :
              d_out[t] * GDen = d_r.data[t] * GDen + d_gamma * d_out[t + 1]

\* ------------------------------------------------ SpecCons: AC_Net.__init__
ConsInit ==
    /\ c_args \in {a \in ConsArgs : KindMatches(a.hidden_types, a.hidden_dimensions)}
    /\ c_net = ConsFail("none", 0, 0)
    /\ c_pc = "new"
    /\ DiscIdle
    /\ AgentIdle

Construct ==
    /\ c_pc = "new"
    /\ c_net' = AC_Net_init(c_args)
    /\ c_pc' = "done"
    /\ UNCHANGED c_args
    /\ UNCHANGED <<disc_vars, agent_vars>>

ConsNext == Construct

SpecCons == ConsInit /\ [][ConsNext]_vars

\* the kind of layer a claim about geometry speaks of, and the size the
\* documented formula gives for one spatial extent
ExpectedOut(in, a) == ((in + 2 * a.padding - a.rfsize) \div a.stride) + 1

LayerReached(j) == c_net.err = "none" \/ c_net.fail_at >= j
LayerAccepted(j) == c_net.err = "none" \/ c_net.fail_at > j
\* construction ended without error or on a geometry assertion
GeometryDecided == c_net.err = "none" \/ c_net.line \in {126, 132}

\* C8: construction accepts a conv or pool layer exactly when its declared
\* (height, width) equals the output size computed from the layer's input
\* height and input width respectively, for square and non-square inputs.
\* Stated for the constructions that no other check stopped.
C8_GeometryCheck ==
    (c_pc = "done" /\ GeometryDecided) =>
        \A j \in 1..Len(c_args.hidden_types) :
            (/\ IsSpatial(c_args.hidden_types[j])
             /\ LayerReached(j)
             /\ LayerInput(c_args, j).kind = "tuple")
            => (LayerAccepted(j) <=>
                  /\ c_args.hidden_dimensions[j].h
                        = ExpectedOut(LayerInput(c_args, j).h, c_args)
                  /\ c_args.hidden_dimensions[j].w
                        = ExpectedOut(LayerInput(c_args, j).w, c_args))

\* C9: a network with no hidden layers (hidden_types = [], hidden_dimensions
\* = []), input dimension 4 and action dimension 4 can be constructed.
C9_NoHiddenConstructs ==
    (/\ c_pc = "done"
     /\ c_args.hidden_types = <<>>
     /\ c_args.hidden_dimensions = <<>>
     /\ c_args.input_dimensions = IntD(4)
     /\ c_args.action_dimensions = 4)
    => c_net.err = "none"

\* ------------------------------------- SpecNet: forward, reset, snapshots
NetInit ==
    /\ \E a \in NetArgs : NewAgent(a)
    /\ EC \in 0..1
    /\ DiscIdle
    /\ ConsIdle

CellOuts == {0, 1}

NetCall(op, err) ==
    [op |-> op, err |-> err, hx |-> net.hx, cx |-> net.cx,
     saved_actions |-> saved_actions, rewards |-> rewards,
     opt_steps |-> opt_steps, EC |-> EC]

Forward ==
    /\ \E x \in InputDims, outs \in [1..Len(net.hidden) -> CellOuts] :
          LET f == forward(net, x, outs)
          IN  /\ net' = [net EXCEPT !.hx = f.hx, !.cx = f.cx]
              /\ last' = NetCall("forward", f.err)
    /\ UNCHANGED <<maze_cur_state, trial_vars, disc_vars, cons_vars>>

ReinitHid ==
    /\ LET r == reinit_hid(net)
       IN  net' = [net EXCEPT !.hx = r.hx, !.cx = r.cx]
    /\ last' = NetCall("reinit_hid", "none")
    /\ UNCHANGED <<maze_cur_state, trial_vars, disc_vars, cons_vars>>

Snapshot ==
    /\ \E x \in InputDims, n \in 0..MaxUseable :
       \E outs_seq \in [1..n -> [1..Len(net.hidden) -> CellOuts]] :
          LET f == snapshot(net, x, n, outs_seq)
          IN  /\ net' = [net EXCEPT !.hx = f.hx, !.cx = f.cx]
              /\ maze_cur_state' = f.cur_state
              /\ last' = NetCall("snapshot", f.err)
    /\ UNCHANGED <<trial_vars, disc_vars, cons_vars>>

\* mem_snapshot, lines 448-463: reads EC.cache_list and fills mpol_array
MemSnapshot ==
    /\ last' = NetCall("mem_snapshot", "none")
    /\ UNCHANGED <<net_vars, trial_vars, disc_vars, cons_vars>>

NetNext == Forward \/ ReinitHid \/ Snapshot \/ MemSnapshot

SpecNet == NetInit /\ [][NetNext]_vars

IsRecurrent(layer) == layer.type \in {"lstm", "gru"}

\* C3: after reinit_hid, for every recurrent layer at position i the state
\* forward reads for it (hx[i], and cx[i] for an LSTM layer) is an all-zero
\* tensor of that layer's width, whatever layers precede it.
C3_ReinitZeros ==
    last.op = "reinit_hid" =>
        \A i \in 1..Len(net.hidden) :
            IsRecurrent(net.hidden[i]) =>
                /\ i <= Len(net.hx)
                /\ net.hx[i] = Zeros(net.hidden[i].size)
                /\ net.hidden[i].type = "lstm" =>
                      /\ i <= Len(net.cx)
                      /\ net.cx[i] = Zeros(net.hidden[i].size)

\* C7: snapshot and mem_snapshot leave the agent as it was: saved_actions,
\* rewards, parameters, hx and cx and the memory store are unchanged by
\* the call, for networks with any hidden layer types.
C7_SnapshotReadOnly ==
    last.op \in {"snapshot", "mem_snapshot"} =>
        /\ net.hx = last.hx
        /\ net.cx = last.cx
        /\ saved_actions = last.saved_actions
        /\ rewards = last.rewards
        /\ opt_steps = last.opt_steps
        /\ EC = last.EC

\* ------------------------------ Spec: the trial loop around finish_trial
Init ==
    /\ AgentIdle
    /\ DiscIdle
    /\ ConsIdle

Before == [saved_actions |-> saved_actions, rewards |-> rewards,
           opt_steps |-> opt_steps, EC |-> EC]

SelectAction ==
    /\ Len(saved_actions) < MaxSteps
    /\ \E policy_ \in MFPolicies, value_ \in ValueVals :
       \E action \in Sample(policy_) :
          LET r == select_action(saved_actions, policy_, value_, action)
          IN  /\ saved_actions' = r.saved_actions
              /\ last' = [op |-> "select_action", policy_ |-> policy_,
                          value_ |-> value_, ret |-> r.ret, before |-> Before]
    /\ nsel' = nsel + 1
    /\ UNCHANGED <<rewards, opt_steps, EC, net_vars, disc_vars, cons_vars>>

SelectEcAction ==
    /\ Len(saved_actions) < MaxSteps
    /\ \E mf_policy_ \in MFPolicies, mf_value_ \in ValueVals, ec_policy_ \in ECPolicies :
       \E action \in Sample(ec_policy_) :
          LET r == select_ec_action(saved_actions, mf_policy_, mf_value_,
                                    ec_policy_, action)
          IN  /\ saved_actions' = r.saved_actions
              /\ last' = [op |-> "select_ec_action", policy_ |-> mf_policy_,
                          value_ |-> mf_value_, ret |-> r.ret, before |-> Before]
    /\ nsel' = nsel + 1
    /\ UNCHANGED <<rewards, opt_steps, EC, net_vars, disc_vars, cons_vars>>

\* the driver's model.rewards.append(reward) after each environment step
AppendReward ==
    /\ Len(rewards) < MaxSteps
    /\ \E r \in RewardVals : rewards' = Append(rewards, r)
    /\ last' = [op |-> "append_reward"]
    /\ UNCHANGED <<saved_actions, opt_steps, EC, nsel, net_vars, disc_vars, cons_vars>>

FinishTrial ==
    /\ \E discount_factor \in TrialGammas, kw \in FinishKwargs :
          /\ last' = [op |-> "finish_trial", discount_factor |-> discount_factor,
                      cache |-> kw[1], buf |-> kw[2], before |-> Before,
                      out |-> finish_trial([saved_actions |-> saved_actions,
                                            rewards |-> rewards],
                                           discount_factor, kw[1], kw[2])]
          /\ last'.out.step => opt_steps < MaxTrials
          /\ EC + Len(last'.out.add_mem_calls) <= MaxSteps
          /\ saved_actions' = last'.out.saved_actions
          /\ rewards' = last'.out.rewards
          /\ opt_steps' = IF last'.out.step THEN opt_steps + 1 ELSE opt_steps
          /\ EC' = EC + Len(last'.out.add_mem_calls)
          /\ nsel' = IF last'.out.err = "none" THEN 0 ELSE nsel
    /\ UNCHANGED <<net_vars, disc_vars, cons_vars>>

Next == SelectAction \/ SelectEcAction \/ AppendReward \/ FinishTrial

Spec == Init /\ [][Next]_vars

Finished == last.op = "finish_trial"
Returned == Finished /\ last.out.err = "none"

\* C1: after any call of finish_trial that returns, model.saved_actions and
\* model.rewards are both empty, with or without a memory store and buffer.
C1_ListsCleared ==
    Returned => saved_actions = <<>> /\ rewards = <<>>

C1_Witness ==
    /\ Returned
    /\ last.cache /\ ~last.buf.none
    /\ Len(last.before.saved_actions) >= 2
    /\ Len(last.before.rewards) >= 2

\* C4: each selector call appends exactly one SavedAction and removes none:
\* after k selector calls since the last finish_trial that returned the list
\* has length k, and the record appended holds the value estimate and the
\* log-probability, under the network's policy, of the action returned.
C4_OneRecordPerCall ==
    /\ Len(saved_actions) = nsel
    /\ last.op \in {"select_action", "select_ec_action"} =>
          /\ saved_actions =
                Append(last.before.saved_actions,
                       SavedAction(log_prob(last.policy_, last.ret.action),
                                   last.value_))
          /\ last.ret.policy = last.policy_
          /\ last.ret.value = last.value_

C4_Witness ==
    /\ last.op = "select_ec_action"
    /\ opt_steps >= 1
    /\ nsel >= 2

\* C5: finish_trial with a memory store but without a buffer fails with an
\* error before any record is added to the store and before any optimizer
\* step.
C5_MissingBufferFails ==
    (Finished /\ last.cache /\ last.buf.none) =>
        /\ last.out.err # "none"
        /\ last.out.add_mem_calls = <<>>
        /\ ~last.out.step
        /\ EC = last.before.EC
        /\ opt_steps = last.before.opt_steps

C5_Witness ==
    /\ Finished /\ last.cache /\ last.buf.none
    /\ Len(last.before.saved_actions) >= 2
    /\ Len(last.before.rewards) >= 2

\* C6: finish_trial on empty rewards and saved_actions fails with an error,
\* takes no optimizer step, writes no memory and returns no losses.
C6_EmptyTrialFails ==
    (Finished /\ last.before.saved_actions = <<>> /\ last.before.rewards = <<>>) =>
        /\ last.out.err # "none"
        /\ ~last.out.step
        /\ last.out.add_mem_calls = <<>>
        /\ EC = last.before.EC
        /\ opt_steps = last.before.opt_steps

\* a second finish_trial directly after one that returned
C6_Witness ==
    /\ Finished /\ last.before.saved_actions = <<>> /\ last.before.rewards = <<>>
    /\ last.before.opt_steps >= 1
    /\ last.cache /\ ~last.buf.none /\ Len(last.buf.states) >= 1

\* C10: given a memory store and a buffer, finish_trial makes exactly one
\* add_mem call for every step of the trial (every SavedAction accumulated),
\* in step order, with the step's state, action, delta = G[t] - value[t],
\* timestamp, readable and the trial id, and one policy-loss and one
\* value-loss term per step.  Stated here for a call that returned on a
\* trial with as many rewards as SavedActions.
C10_OneMemoryPerStep ==
    (/\ Returned
     /\ last.cache /\ ~last.buf.none
     /\ Len(last.before.rewards) = Len(last.before.saved_actions)) =>
        LET n == Len(last.before.saved_actions) IN
        /\ Len(last.out.add_mem_calls) = n
        /\ Len(last.out.policy_losses) = n
        /\ Len(last.out.value_losses) = n
        /\ \A t \in 1..n :
              last.out.add_mem_calls[t] =
                  [activity |-> last.buf.states[t],
                   action |-> last.buf.actions[t],
                   delta |-> last.out.returns[t]
                               - last.before.saved_actions[t].value * Scale,
                   timestamp |-> last.buf.timesteps[t],
                   readable |-> last.buf.readable[t],
                   trial |-> last.buf.trial]

=============================================================================
